---- MODULE Spec2Model ----
(***************************************************************************)
(* The live scanner session of FridgeOmeter: ScannerView in                *)
(* src/services/geminiService.ts (lines 1269-1437).                        *)
(*                                                                         *)
(* The component keeps its session in React state (active, mouldAlert,     *)
(* analysisText) and in refs (sessionRef, audioCtxRef, micCtxRef,          *)
(* nextStartTimeRef, sourcesRef, videoRef.current.srcObject).  Every call  *)
(* of startScanner is an "invocation": it owns the resources it creates    *)
(* (output audio context, media stream, live channel, microphone context,  *)
(* frame interval) and the closures over its sessionPromise.               *)
(*                                                                         *)
(* JavaScript runs each handler to completion.  The only suspension        *)
(* points are the awaits: getUserMedia and sessionPromise in startScanner, *)
(* decodeAudioData in onmessage.  decodeAudioData contains no await of its *)
(* own, so the continuation of onmessage is a promise job queued at the    *)
(* await; promise jobs run first-in first-out (pend).  While jobs are      *)
(* pending only callbacks of the channel (onmessage, onerror, onclose) and *)
(* the jobs themselves run; event-loop tasks (user input, timers, device   *)
(* and network completions, the audio clock) wait for an empty job queue.  *)
(***************************************************************************)
EXTENDS Integers, Sequences, FiniteSets, TLC

\* ---------------------------------------------------------------- bounds
MaxStarts == 2      \* startScanner invocations in one behaviour
MaxSessions == 1    \* presses of the start button where one session is studied
MaxChunks == 2      \* audio chunks scheduled between two stops, SpecPlayback
MaxSpoken == 1      \* audio chunks scheduled between two stops, with transcripts
MaxDur == 2         \* longest audio chunk, in clock units
MaxClock == 2       \* last value of the output clock that is explored
MaxPending == 2     \* suspended onmessage handlers at one time
MaxInflight == 2    \* captured frames whose send is pending, per interval
MaxBlocks == 2      \* numbered microphone blocks per invocation
SampleDen == 96     \* microphone samples are the multiples of 1/SampleDen in [-1, 1]
MaxQuantity == 3    \* largest quantity of a food item
MaxActions == 3     \* calls of handleAction counted by the persisted stats
MaxItems == 2       \* items in the inventory where its order is studied
MaxIds == 2         \* distinct item ids where the inventory is studied

Invocations == 1..MaxStarts
Null == 0

\* A transcript text is a sequence of characters.
MouldText == <<"I", " ", "s", "e", "e", " ", "s", "o", "m", "e", " ",
               "M", "o", "u", "l", "d", " ", "h", "e", "r", "e">>
FreshText == <<"l", "o", "o", "k", "s", " ", "f", "r", "e", "s", "h", " ",
               "n", "o", "w">>
Texts == {MouldText, FreshText}

\* A message without outputTranscription; the texts the component itself
\* shows are not spelled out.
NoText == <<"no transcription">>
WaitingText == <<"waiting">>
OnlineText == <<"online">>

\* The words of line 1380.
Keywords == { <<"m", "o", "u", "l", "d">>, <<"m", "o", "l", "d">>,
              <<"s", "p", "o", "i", "l">>, <<"f", "u", "z", "z", "y">> }

VARIABLES
    neuralSync,        \* prop isNeuralSyncEnabled
    active,            \* useState active
    mouldAlert,        \* useState mouldAlert
    analysisText,      \* useState analysisText
    errorShown,        \* onError has been called
    sessionRef,        \* sessionRef.current: Null or the invocation whose session it is
    audioCtxRef,       \* audioCtxRef.current: Null or the invocation that created it
    micCtxRef,         \* micCtxRef.current
    videoSrc,          \* videoRef.current.srcObject: Null or the invocation's stream
    nextStartTimeRef,  \* nextStartTimeRef.current, the playback cursor
    sourcesRef,        \* sourcesRef.current, the in-flight set (handles = indices of sched)
    pc,                \* per invocation: where startScanner stands
    chan,              \* per invocation: the live channel of ai.live.connect
    stream,            \* per invocation: the MediaStream of getUserMedia
    outCtx,            \* per invocation: the 24 kHz AudioContext
    micCtx,            \* per invocation: the 16 kHz AudioContext
    timer,             \* per invocation: the setInterval of onopen is armed
    prompt,            \* per invocation: onKeyPrompt() of its catch is pending
    retry,             \* per invocation: it was started by the then of a key prompt
    stale,             \* the sources stopScanner has stopped whose ended event
                       \* has not fired yet: <<context, handle>>; NotFollowed
                       \* where these events are not part of the behaviours
    heard,             \* history: the text of the latest message that arrived
                       \* with a transcript, NoText before the first
    localStorage,      \* the persisted inventory (fridgesmart inventory key) and
                       \* stats (stats key, absent: <<>>), as JSON.parse reads
                       \* them
    app,               \* the React state of App: inventory, stats, notification
    mic,               \* per invocation, of the numbered microphone blocks: how
                       \* many onaudioprocess has produced, those whose then on
                       \* sessionPromise is waiting, and those sent, in order
    pcm,               \* one microphone sample on its way: the captured value x
                       \* (in units of 1/SampleDen), its Int16Array element, the
                       \* bytes sent, the value decoded, and whether it was sent
    inflight,          \* per invocation: frames captured, send not yet run
    clock,             \* audioCtxRef.current.currentTime
    sched,             \* the srcNode.start calls since the last stopScanner:
                       \* [ctx, start, dur] and, of the chunk's arrival, its
                       \* position arr, the clock read, whether the clock was
                       \* ahead of the cursor, whether a handler was suspended
    hstate,            \* per handle of sched: "live" or "ended"
    pend,              \* onmessage handlers suspended at await decodeAudioData
    wire,              \* the last sendRealtimeInput call: [chan, kind, open]
    uncaught,          \* a handler has thrown (unhandled rejection)
    ended,             \* per invocation: stopScanner ran after it started
    stopLog            \* the stopScanner calls since the last other handler (the
                       \* last two): what each released, which handles were live,
                       \* the calls it made in order, the calls a run without
                       \* exceptions makes, and whether it threw

vars == <<neuralSync, active, mouldAlert, analysisText, errorShown, sessionRef,
          audioCtxRef, micCtxRef, videoSrc, nextStartTimeRef, sourcesRef, pc, chan,
          stream, outCtx, micCtx, timer, prompt, inflight, clock, sched, hstate,
          pend, wire, uncaught, ended, stopLog, retry, pcm, mic, stale, heard, localStorage, app>>

\* ------------------------------------------------------------ pure helpers
Max(a, b) == IF a >= b THEN a ELSE b

\* String.prototype.toLowerCase (line 1376), on the letters the texts use.
LowerChar(c) ==
    CASE c = "I" -> "i"
      [] c = "M" -> "m"
      [] OTHER -> c

Lower(t) ==
    [i \in 1..Len(t) |-> LowerChar(t[i])]

\* String.prototype.includes: w occurs in t as a run of characters.
Includes(t, w) ==
    \E i \in 1..Len(t) :
        /\ i + Len(w) - 1 <= Len(t)
        /\ SubSeq(t, i, i + Len(w) - 1) = w

\* The keyword test of line 1380 on the lower-cased text.
HasKeyword(t) ==
    \E w \in Keywords : Includes(t, w)

\* Math.max(nextStartTimeRef.current, audioCtxRef.current.currentTime), line 1366.
StartTimeNoMax(cursor, now) ==
    now
StartTimeStale(cursor, now) ==
    cursor
StartTime(cursor, now) ==
    Max(cursor, now)

\* nextStartTimeRef.current += buffer.duration, line 1371.
NextCursorGap(cursor, dur) ==
    cursor + dur + 1
NextCursor(cursor, dur) ==
    cursor + dur

\* session.close() on a channel: an open one starts closing, else nothing.
CloseChannel(c) ==
    IF c = "open" THEN "closing" ELSE c

\* The state stopScanner reads and writes, as one record.
Cur ==
    [ active |-> active, mouldAlert |-> mouldAlert, sessionRef |-> sessionRef,
      chan |-> chan, videoSrc |-> videoSrc, stream |-> stream,
      sourcesRef |-> sourcesRef, audioCtxRef |-> audioCtxRef, outCtx |-> outCtx,
      micCtxRef |-> micCtxRef, micCtx |-> micCtx,
      nextStartTimeRef |-> nextStartTimeRef ]

\* Lines 1302-1309 of stopScanner as a function of that record: the state is
\* cleared, and what the refs hold is released and the refs are emptied.
ReleaseAll(s) ==
    [ active |-> FALSE,
      mouldAlert |-> FALSE,
      sessionRef |-> Null,
      chan |-> IF s.sessionRef # Null
               THEN [s.chan EXCEPT ![s.sessionRef] = CloseChannel(@)] ELSE s.chan,
      videoSrc |-> Null,
      stream |-> IF s.videoSrc # Null
                 THEN [s.stream EXCEPT ![s.videoSrc] = "stopped"] ELSE s.stream,
      sourcesRef |-> {},
      audioCtxRef |-> Null,
      outCtx |-> IF s.audioCtxRef # Null
                 THEN [s.outCtx EXCEPT ![s.audioCtxRef] = "closed"] ELSE s.outCtx,
      micCtxRef |-> Null,
      micCtx |-> IF s.micCtxRef # Null
                 THEN [s.micCtx EXCEPT ![s.micCtxRef] = "closed"] ELSE s.micCtx,
      nextStartTimeRef |-> s.nextStartTimeRef ]

\* stopScanner, lines 1301-1311: the above, and the cursor back to zero.
StopScannerKeepsCursor(s) ==
    ReleaseAll(s)
StopScannerKeepsSession(s) ==
    [ ReleaseAll(s) EXCEPT !.nextStartTimeRef = 0, !.sessionRef = s.sessionRef ]
StopScanner(s) ==
    [ ReleaseAll(s) EXCEPT !.nextStartTimeRef = 0 ]

\* The release calls stopScanner issues in state s: session.close(), the
\* tracks' stop(), each source's stop(), and the two contexts' close().
Releases(s) ==
    (IF s.sessionRef # Null THEN {<<"session.close", s.sessionRef>>} ELSE {})
    \cup (IF s.videoSrc # Null THEN {<<"track.stop", s.videoSrc>>} ELSE {})
    \cup {<<"source.stop", h>> : h \in s.sourcesRef}
    \cup (IF s.audioCtxRef # Null THEN {<<"audioCtx.close", s.audioCtxRef>>} ELSE {})
    \cup (IF s.micCtxRef # Null THEN {<<"micCtx.close", s.micCtxRef>>} ELSE {})

RECURSIVE SeqOf(_)
\* The elements of a set of numbers in ascending order: the order in which
\* sourcesRef.current, a Set filled in scheduling order, is iterated.
SeqOf(S) ==
    IF S = {} THEN <<>>
    ELSE LET m == CHOOSE x \in S : \A y \in S : x <= y
         IN <<m>> \o SeqOf(S \ {m})

\* The calls of stopScanner that can throw, by the object they are made on.
ThrowingCalls == {"session.close", "track.stop", "source.stop", "audioCtx.close",
                  "micCtx.close"}

\* stopScanner statement by statement (lines 1302-1310) from the record s, when
\* the calls named in raise throw.  A call in a try/catch block that throws
\* leaves its object as it was and the statements after the block run; the
\* tracks' stop() of line 1305 is in no try block, so its exception ends
\* stopScanner there.  The result is the state reached, the calls made in
\* order, and whether stopScanner threw.
StopRun(s, raise) ==
    LET a  == [s EXCEPT !.active = FALSE, !.mouldAlert = FALSE,
                        !.chan = IF s.sessionRef # Null /\ "session.close" \notin raise
                                 THEN [s.chan EXCEPT ![s.sessionRef] = CloseChannel(@)]
                                 ELSE @,
                        !.sessionRef = Null]
        ca == IF s.sessionRef # Null
              THEN << <<"session.close", s.sessionRef>> >> ELSE <<>>
        b  == [a EXCEPT !.stream = IF s.videoSrc # Null
                                   THEN [s.stream EXCEPT ![s.videoSrc] = "stopped"]
                                   ELSE @,
                        !.videoSrc = Null]
        cb == ca \o (IF s.videoSrc # Null
                     THEN << <<"track.stop", s.videoSrc>> >> ELSE <<>>)
        q  == SeqOf(s.sourcesRef)
        c  == [b EXCEPT !.sourcesRef = {}]
        cc == cb \o [i \in 1..Len(q) |-> <<"source.stop", q[i]>>]
        d  == [c EXCEPT !.outCtx = IF s.audioCtxRef # Null /\ "audioCtx.close" \notin raise
                                   THEN [s.outCtx EXCEPT ![s.audioCtxRef] = "closed"]
                                   ELSE @,
                        !.audioCtxRef = Null]
        cd == cc \o (IF s.audioCtxRef # Null
                     THEN << <<"audioCtx.close", s.audioCtxRef>> >> ELSE <<>>)
        e  == [d EXCEPT !.micCtx = IF s.micCtxRef # Null /\ "micCtx.close" \notin raise
                                   THEN [s.micCtx EXCEPT ![s.micCtxRef] = "closed"]
                                   ELSE @,
                        !.micCtxRef = Null]
        ce == cd \o (IF s.micCtxRef # Null
                     THEN << <<"micCtx.close", s.micCtxRef>> >> ELSE <<>>)
        f  == [e EXCEPT !.nextStartTimeRef = 0]
        cf == Append(ce, <<"cursor.reset", 0>>)
    IN IF s.videoSrc # Null /\ "track.stop" \in raise
       THEN [state |-> a, calls |-> cb, thrown |-> TRUE]
       ELSE [state |-> f, calls |-> cf, thrown |-> FALSE]

\* The source nodes behind the handles hs, each known by the context that
\* created it and its handle: source.stop() of line 1306 makes each fire its
\* ended event later.
Stopped(hs) ==
    {<<sched[h].ctx, h>> : h \in hs}

\* The value of stale in the behaviours that leave these events out.
NotFollowed == {<<Null, Null>>}

\* The events due after stopScanner has stopped the sources hs.
StaleAfter(hs) ==
    IF stale = NotFollowed THEN stale ELSE stale \cup Stopped(hs)

\* One run of stopScanner from the record s: the refs and state it writes, and
\* the bookkeeping of the model: which invocations a stop has followed, what
\* this stop released, and a fresh record of start calls (no context is
\* referenced any more, so there is no clock to read either).
Teardown(s) ==
    LET t == StopScanner(s) IN
    /\ active' = t.active
    /\ mouldAlert' = t.mouldAlert
    /\ sessionRef' = t.sessionRef
    /\ chan' = t.chan
    /\ videoSrc' = t.videoSrc
    /\ stream' = t.stream
    /\ sourcesRef' = t.sourcesRef
    /\ audioCtxRef' = t.audioCtxRef
    /\ outCtx' = t.outCtx
    /\ micCtxRef' = t.micCtxRef
    /\ micCtx' = t.micCtx
    /\ nextStartTimeRef' = t.nextStartTimeRef
    /\ clock' = 0
    /\ sched' = <<>>
    /\ hstate' = <<>>
    /\ stale' = StaleAfter(s.sourcesRef)
    /\ ended' = [k \in Invocations |-> ended[k] \/ pc[k] # "idle"]
    /\ stopLog' = LET e == [released |-> Releases(s),
                            live |-> {h \in DOMAIN hstate : hstate[h] = "live"},
                            calls |-> StopRun(s, {}).calls,
                            due |-> StopRun(s, {}).calls,
                            thrown |-> FALSE]
                  IN IF stopLog = <<>> THEN <<e>> ELSE <<stopLog[Len(stopLog)], e>>

\* What Teardown writes, apart from stopLog.
tornDown == <<active, mouldAlert, sessionRef, chan, videoSrc, stream, sourcesRef,
              audioCtxRef, outCtx, micCtxRef, micCtx, nextStartTimeRef, clock,
              sched, hstate, ended, stale>>

\* ------------------------------------------------- inventory and stats
\* src/types.ts, StorageService.  Of a food item the id, the quantity and
\* mouldDetected are kept; of the stats the counters, the streak, xp and level.
\* The money and CO2 totals, the per-category counters and the activity date
\* are written by updateStatsForAction and read by nothing modelled here.
\* JSON.stringify and JSON.parse are exact on the integers, booleans and arrays
\* kept; the falsy quantities (0, and null for a NaN that was stored) are 0.
FoodActions == {"consumed", "composted", "tossed"}

ItemsOf(ids, quantities) ==
    [id : ids, quantity : quantities, mouldDetected : BOOLEAN]

\* getInventory, lines 205-208: an absent key reads as the empty array.
GetInventory(ls) ==
    ls.inventory

\* The defaults of getStats, lines 236-243.
DefaultStats ==
    [rescued |-> 0, wasted |-> 0, composted |-> 0, moldDetected |-> 0,
     streakDays |-> 0, xp |-> 0, level |-> 1]

\* getStats, lines 233-247; what is stored has every field of the defaults.
GetStats(ls) ==
    IF ls.stats = <<>> THEN DefaultStats ELSE ls.stats[1]

\* addFoodItem, lines 210-215.
AddFoodItem(ls, item) ==
    [ls EXCEPT !.inventory = <<item>> \o GetInventory(ls)]

RECURSIVE Filter(_, _)
\* current.filter(item => item.id !== id), line 226.
Filter(q, id) ==
    IF q = <<>> THEN <<>>
    ELSE IF Head(q).id # id THEN <<Head(q)>> \o Filter(Tail(q), id)
         ELSE Filter(Tail(q), id)

RECURSIVE FilterFirst(_, _)
FilterFirst(q, id) ==
    IF q = <<>> THEN <<>>
    ELSE IF Head(q).id # id THEN <<Head(q)>> \o FilterFirst(Tail(q), id)
         ELSE Tail(q)

\* removeFoodItem, lines 224-229.
RemoveFirstFoodItem(ls, id) ==
    [ls EXCEPT !.inventory = FilterFirst(GetInventory(ls), id)]
RemoveFoodItem(ls, id) ==
    [ls EXCEPT !.inventory = Filter(GetInventory(ls), id)]

\* item.quantity || 1, line 251.
Quantity(item) ==
    IF item.quantity = 0 THEN 1 ELSE item.quantity

\* Math.max(0, current.xp - 20 * quantity), line 279.
TossedXpUnfloored(xp, quantity) ==
    xp - 20 * quantity
TossedXp(xp, quantity) ==
    Max(0, xp - 20 * quantity)

\* Math.floor(current.xp / 300) + 1, line 287.
LevelFromZero(xp) ==
    xp \div 300
Level(xp) ==
    (xp \div 300) + 1

\* updateStatsForAction, lines 249-291.
UpdateStatsForAction(ls, item, action) ==
    LET current == GetStats(ls)
        quantity == Quantity(item)
        acted ==
            CASE action = "consumed" ->
                    [current EXCEPT !.rescued = @ + 1,
                                    !.xp = @ + 50 * quantity,
                                    !.streakDays = @ + 1]
              [] action = "composted" ->
                    [current EXCEPT !.composted = @ + 1,
                                    !.xp = @ + 30 * quantity,
                                    !.streakDays = @ + 1]
              [] OTHER ->
                    [current EXCEPT !.wasted = @ + 1,
                                    !.streakDays = 0,
                                    !.xp = TossedXp(@, quantity)]
        mould ==
            IF item.mouldDetected
            THEN [acted EXCEPT !.moldDetected = @ + 1, !.xp = @ + 10]
            ELSE acted
    IN  [ls EXCEPT !.stats = << [mould EXCEPT !.level = Level(mould.xp)] >>]

\* clearUserProfile, lines 201-203, of the inventory and stats keys.
ClearUserProfile(ls) ==
    [inventory |-> <<>>, stats |-> <<>>]

\* No promise job is pending: the event loop may run its next task.
TaskMayRun == pend = <<>>

\* The invocation a new call of startScanner becomes.
Unused == {k \in Invocations : pc[k] = "idle"}
NextInvocation == CHOOSE k \in Unused : \A j \in Unused : k <= j

InitScanner ==
    /\ neuralSync = TRUE
    /\ active = FALSE
    /\ mouldAlert = FALSE
    /\ analysisText = WaitingText
    /\ errorShown = FALSE
    /\ sessionRef = Null
    /\ audioCtxRef = Null
    /\ micCtxRef = Null
    /\ videoSrc = Null
    /\ nextStartTimeRef = 0
    /\ sourcesRef = {}
    /\ pc = [k \in Invocations |-> "idle"]
    /\ chan = [k \in Invocations |-> "none"]
    /\ stream = [k \in Invocations |-> "none"]
    /\ outCtx = [k \in Invocations |-> "none"]
    /\ micCtx = [k \in Invocations |-> "none"]
    /\ timer = [k \in Invocations |-> FALSE]
    /\ prompt = [k \in Invocations |-> FALSE]
    /\ retry = [k \in Invocations |-> FALSE]
    /\ inflight = [k \in Invocations |-> 0]
    /\ clock = 0
    /\ sched = <<>>
    /\ hstate = <<>>
    /\ pend = <<>>
    /\ wire = [chan |-> Null, kind |-> "none", open |-> FALSE]
    /\ uncaught = FALSE
    /\ ended = [k \in Invocations |-> FALSE]
    /\ stopLog = <<>>
    /\ heard = NoText
    /\ localStorage = [inventory |-> <<>>, stats |-> <<>>]
    /\ app = [inventory |-> GetInventory(localStorage),
              stats |-> GetStats(localStorage), notification |-> "none"]

\* A sample that has been captured and not yet converted.
Captured(x) ==
    [x |-> x, int16 |-> 0, bytes |-> <<0, 0>>, out |-> 0, done |-> FALSE]

Init ==
    /\ InitScanner
    /\ pcm = Captured(0)
    /\ stale = NotFollowed
    /\ mic = [k \in Invocations |-> [made |-> 0, waiting |-> <<>>, sent |-> <<>>]]

\* ------------------------------------------------------------- startScanner
\* Lines 1318-1323: past the guard of line 1314, up to await getUserMedia.
StartBody(k) ==
    /\ active' = TRUE
    /\ audioCtxRef' = k
    /\ outCtx' = [outCtx EXCEPT ![k] = "running"]
    /\ clock' = 0
    /\ pc' = [pc EXCEPT ![k] = "media"]
    /\ stopLog' = <<>>
    /\ UNCHANGED <<neuralSync, mouldAlert, analysisText, errorShown, sessionRef,
                   micCtxRef, videoSrc, nextStartTimeRef, sourcesRef, chan, stream,
                   micCtx, timer, prompt, inflight, sched, hstate, pend, wire,
                   uncaught, ended,
                   retry, pcm, mic, stale, heard, localStorage, app>>

\* The button of line 1446 (rendered while !active) with Neural Sync enabled;
\* at most n invocations are explored.
StartScanner(n) ==
    /\ TaskMayRun
    /\ ~active
    /\ neuralSync
    /\ Cardinality(Invocations \ Unused) < n
    /\ StartBody(NextInvocation)

\* The same button with Neural Sync disabled: lines 1314-1317.
StartRefused ==
    /\ TaskMayRun
    /\ ~active
    /\ ~neuralSync
    /\ errorShown' = TRUE
    /\ stopLog' = <<>>
    /\ UNCHANGED <<neuralSync, active, mouldAlert, analysisText, sessionRef,
                   audioCtxRef, micCtxRef, videoSrc, nextStartTimeRef, sourcesRef,
                   pc, chan, stream, outCtx, micCtx, timer, prompt, inflight, clock,
                   sched, hstate, pend, wire, uncaught, ended,
                   retry, pcm, mic, stale, heard, localStorage, app>>

\* getUserMedia resolves: lines 1324-1401 up to await sessionPromise.  The video
\* element is rendered only while active (line 1443), so videoRef.current is
\* null when the component has been stopped in between.
MediaResolved(k) ==
    /\ TaskMayRun
    /\ pc[k] = "media"
    /\ stream' = [stream EXCEPT ![k] = "live"]
    /\ videoSrc' = IF active THEN k ELSE videoSrc
    /\ chan' = [chan EXCEPT ![k] = "connecting"]
    /\ pc' = [pc EXCEPT ![k] = "connect"]
    /\ stopLog' = <<>>
    /\ UNCHANGED <<neuralSync, active, mouldAlert, analysisText, errorShown,
                   sessionRef, audioCtxRef, micCtxRef, nextStartTimeRef, sourcesRef,
                   outCtx, micCtx, timer, prompt, inflight, clock, sched, hstate,
                   pend, wire, uncaught, ended,
                   retry, pcm, mic, stale, heard, localStorage, app>>

\* getUserMedia rejects: the catch of lines 1402-1405.  The message of a device
\* error does not contain PERMISSION_DENIED, so only stopScanner runs.
MediaRejected(k) ==
    /\ TaskMayRun
    /\ pc[k] = "media"
    /\ Teardown(Cur)
    /\ pc' = [pc EXCEPT ![k] = "failed"]
    /\ UNCHANGED <<neuralSync, analysisText, errorShown, timer, prompt, inflight,
                   pend, wire, uncaught,
                   retry, pcm, mic, heard, localStorage, app>>

\* sessionPromise rejects, the catch of lines 1402-1405: with PERMISSION_DENIED
\* in the message onKeyPrompt() is called, then stopScanner in both cases.
ConnectRejected(k, denied) ==
    /\ TaskMayRun
    /\ pc[k] = "connect"
    /\ chan[k] = "connecting"
    /\ Teardown([Cur EXCEPT !.chan = [chan EXCEPT ![k] = "closed"]])
    /\ prompt' = [prompt EXCEPT ![k] = denied]
    /\ UNCHANGED <<retry, pcm, mic, heard, localStorage, app>>
    /\ pc' = [pc EXCEPT ![k] = "failed"]
    /\ UNCHANGED <<neuralSync, analysisText, errorShown, timer, inflight,
                   pend, wire, uncaught>>

\* onopen, lines 1329-1362: the interval and the microphone context are created.
OnOpen(k) ==
    /\ TaskMayRun
    /\ chan[k] = "connecting"
    /\ chan' = [chan EXCEPT ![k] = "open"]
    /\ analysisText' = OnlineText
    /\ timer' = [timer EXCEPT ![k] = TRUE]
    /\ micCtxRef' = k
    /\ micCtx' = [micCtx EXCEPT ![k] = "running"]
    /\ stopLog' = <<>>
    /\ UNCHANGED <<neuralSync, active, mouldAlert, errorShown, sessionRef,
                   audioCtxRef, videoSrc, nextStartTimeRef, sourcesRef, pc, stream,
                   outCtx, prompt, inflight, clock, sched, hstate, pend, wire,
                   uncaught, ended,
                   retry, pcm, mic, stale, heard, localStorage, app>>

\* The reactions of a promise run in the order they were registered: the
\* blocks sent once the reactions q have run after those of sent.
FlushNewestFirst(sent, q) ==
    sent \o [i \in 1..Len(q) |-> q[Len(q) + 1 - i]]
Flush(sent, q) ==
    sent \o q

\* sessionPromise resolves.  Its reactions run in the order they were
\* registered: the await of line 1401, which stores the session, then the
\* thens of the microphone blocks produced since onopen (line 1358), which find
\* sessionRef.current set and send.
ConnectResolved(k) ==
    /\ TaskMayRun
    /\ pc[k] = "connect"
    /\ chan[k] \in {"open", "closing", "closed"}
    /\ sessionRef' = k
    /\ pc' = [pc EXCEPT ![k] = "ready"]
    /\ mic' = [mic EXCEPT ![k] = [made |-> @.made, waiting |-> <<>>,
                                  sent |-> Flush(@.sent, @.waiting)]]
    /\ wire' = IF mic[k].waiting = <<>> THEN wire
               ELSE [chan |-> k, kind |-> "audio", open |-> chan[k] = "open"]
    /\ stopLog' = <<>>
    /\ UNCHANGED <<neuralSync, active, mouldAlert, analysisText, errorShown,
                   audioCtxRef, micCtxRef, videoSrc, nextStartTimeRef, sourcesRef,
                   chan, stream, outCtx, micCtx, timer, prompt, inflight, clock,
                   sched, hstate, pend, uncaught, ended,
                   retry, pcm, stale, heard, localStorage, app>>

\* onKeyPrompt() of line 1403 resolves true: startScanner is called again.  The
\* closure is the one of the failed call, whose isNeuralSyncEnabled was true.
PromptRetry(k) ==
    /\ TaskMayRun
    /\ prompt[k]
    /\ Unused # {}
    /\ prompt' = [prompt EXCEPT ![k] = FALSE]
    /\ LET n == NextInvocation IN
       /\ retry' = [retry EXCEPT ![n] = TRUE]
       /\ UNCHANGED <<pcm, mic, heard, localStorage, app>>
       /\ active' = TRUE
       /\ audioCtxRef' = n
       /\ outCtx' = [outCtx EXCEPT ![n] = "running"]
       /\ clock' = 0
       /\ pc' = [pc EXCEPT ![n] = "media"]
    /\ stopLog' = <<>>
    /\ UNCHANGED <<neuralSync, mouldAlert, analysisText, errorShown, sessionRef,
                   micCtxRef, videoSrc, nextStartTimeRef, sourcesRef, chan, stream,
                   micCtx, timer, inflight, sched, hstate, pend, wire, uncaught,
                   ended, stale, heard, localStorage, app>>

\* onKeyPrompt() resolves false: nothing follows.
PromptDeclined(k) ==
    /\ TaskMayRun
    /\ prompt[k]
    /\ prompt' = [prompt EXCEPT ![k] = FALSE]
    /\ UNCHANGED <<retry, pcm, mic, heard, localStorage, app>>
    /\ stopLog' = <<>>
    /\ UNCHANGED <<neuralSync, active, mouldAlert, analysisText, errorShown,
                   sessionRef, audioCtxRef, micCtxRef, videoSrc, nextStartTimeRef,
                   sourcesRef, pc, chan, stream, outCtx, micCtx, timer, inflight,
                   clock, sched, hstate, pend, wire, uncaught, ended, stale, heard, localStorage, app>>

\* ------------------------------------------------------------------ stopping
\* The header toggle (line 440) and the effect of lines 1295-1299.
ToggleNeuralSync ==
    /\ TaskMayRun
    /\ neuralSync' = ~neuralSync
    /\ IF neuralSync /\ active
       THEN Teardown(Cur)
       ELSE /\ stopLog' = <<>>
            /\ UNCHANGED tornDown
    /\ UNCHANGED <<analysisText, errorShown, pc, timer, prompt, inflight,
                   pend, wire, uncaught,
                   retry, pcm, mic, heard, localStorage, app>>

\* The same toggle, switched off while active, when the calls named in raise
\* throw inside stopScanner.
StopRaising(raise) ==
    /\ TaskMayRun
    /\ neuralSync /\ active
    /\ neuralSync' = FALSE
    /\ LET r == StopRun(Cur, raise) IN
       /\ active' = r.state.active
       /\ mouldAlert' = r.state.mouldAlert
       /\ sessionRef' = r.state.sessionRef
       /\ chan' = r.state.chan
       /\ videoSrc' = r.state.videoSrc
       /\ stream' = r.state.stream
       /\ sourcesRef' = r.state.sourcesRef
       /\ audioCtxRef' = r.state.audioCtxRef
       /\ outCtx' = r.state.outCtx
       /\ micCtxRef' = r.state.micCtxRef
       /\ micCtx' = r.state.micCtx
       /\ nextStartTimeRef' = r.state.nextStartTimeRef
       /\ uncaught' = (uncaught \/ r.thrown)
       /\ IF r.thrown
          THEN UNCHANGED <<clock, sched, hstate, stale>>
          ELSE /\ clock' = 0 /\ sched' = <<>> /\ hstate' = <<>>
               /\ stale' = StaleAfter(sourcesRef)
       /\ stopLog' = << [released |-> Releases(Cur),
                         live |-> {h \in DOMAIN hstate : hstate[h] = "live"},
                         calls |-> r.calls,
                         due |-> StopRun(Cur, {}).calls,
                         thrown |-> r.thrown] >>
    /\ ended' = [k \in Invocations |-> ended[k] \/ pc[k] # "idle"]
    /\ UNCHANGED <<analysisText, errorShown, pc, timer, prompt, inflight, pend,
                   wire,
                   retry, pcm, mic, heard, localStorage, app>>

\* onerror, line 1390.  The channel has failed; its close event follows.
OnErrorReconnects(k) ==
    /\ chan[k] \in {"connecting", "open"}
    /\ Teardown([Cur EXCEPT !.chan = [chan EXCEPT ![k] = "closing"]])
    /\ prompt' = [prompt EXCEPT ![k] = TRUE]
    /\ UNCHANGED <<retry, pcm, mic, heard, localStorage, app>>
    /\ UNCHANGED <<neuralSync, analysisText, errorShown, pc, timer,
                   inflight, pend, wire, uncaught>>
OnError(k) ==
    /\ chan[k] \in {"connecting", "open"}
    /\ Teardown([Cur EXCEPT !.chan = [chan EXCEPT ![k] = "closing"]])
    /\ UNCHANGED <<neuralSync, analysisText, errorShown, pc, timer, prompt,
                   inflight, pend, wire, uncaught,
                   retry, pcm, mic, heard, localStorage, app>>

\* onclose, line 1391: the remote end closed, or the close event that follows
\* session.close() or an error.
OnClose(k) ==
    /\ chan[k] \in {"open", "closing"}
    /\ Teardown([Cur EXCEPT !.chan = [chan EXCEPT ![k] = "closed"]])
    /\ UNCHANGED <<neuralSync, analysisText, errorShown, pc, timer, prompt,
                   inflight, pend, wire, uncaught,
                   retry, pcm, mic, heard, localStorage, app>>

\* ----------------------------------------------------------------- onmessage
\* Lines 1375-1388: the transcript part of a message with text t.
TranscriptTextAlways(t) ==
    Lower(t)
TranscriptText(t) ==
    IF t = NoText THEN analysisText ELSE Lower(t)
TranscriptAlertSticky(t) ==
    IF t = NoText THEN mouldAlert ELSE (mouldAlert \/ HasKeyword(Lower(t)))
TranscriptAlert(t) ==
    IF t = NoText THEN mouldAlert ELSE HasKeyword(Lower(t))

\* onmessage up to its first suspension, for a message with dur units of audio
\* (0: none) and transcript t.  With audio and an output context: line 1366,
\* then the await of line 1367.  Otherwise lines 1375-1388 at once.  At most n
\* chunks are explored between two stops.
OnMessage(k, dur, t, n) ==
    /\ chan[k] = "open"
    /\ IF dur > 0 /\ audioCtxRef # Null
       THEN /\ Len(pend) < MaxPending
            /\ Len(sched) + Len(pend) < n
            /\ nextStartTimeRef' = StartTime(nextStartTimeRef, clock)
            /\ pend' = Append(pend, [dur |-> dur, text |-> t,
                                     arr |-> Len(sched) + Len(pend) + 1,
                                     read |-> clock,
                                     ahead |-> clock > nextStartTimeRef,
                                     behind |-> pend # <<>>])
            /\ UNCHANGED <<analysisText, mouldAlert>>
       ELSE /\ analysisText' = TranscriptText(t)
            /\ mouldAlert' = TranscriptAlert(t)
            /\ UNCHANGED <<nextStartTimeRef, pend>>
    /\ heard' = IF t = NoText THEN heard ELSE t
    /\ stopLog' = <<>>
    /\ UNCHANGED <<neuralSync, active, errorShown, sessionRef, audioCtxRef,
                   micCtxRef, videoSrc, sourcesRef, pc, chan, stream, outCtx, micCtx,
                   timer, prompt, inflight, clock, sched, hstate, wire, uncaught,
                   ended,
                   retry, pcm, mic, stale, localStorage, app>>

\* The promise job that runs next: jobs run in the order they were queued.
JobIndexNewest(q) ==
    Len(q)
JobIndex(q) ==
    1

\* q without its i-th element.
Without(q, i) ==
    [j \in 1..(Len(q) - 1) |-> IF j < i THEN q[j] ELSE q[j + 1]]

\* A suspended handler resumes: lines 1368-1388.  With audioCtxRef.current
\* null, line 1368 throws and the handler ends there.
Resume ==
    /\ pend # <<>>
    /\ pend' = Without(pend, JobIndex(pend))
    /\ LET m == pend[JobIndex(pend)] IN
       IF audioCtxRef = Null
       THEN /\ uncaught' = TRUE
            /\ UNCHANGED <<sched, hstate, nextStartTimeRef, sourcesRef,
                           analysisText, mouldAlert>>
       ELSE /\ sched' = Append(sched, [ctx |-> audioCtxRef,
                                       start |-> nextStartTimeRef, dur |-> m.dur,
                                       arr |-> m.arr, read |-> m.read,
                                       ahead |-> m.ahead, behind |-> m.behind])
            /\ hstate' = Append(hstate, "live")
            /\ nextStartTimeRef' = NextCursor(nextStartTimeRef, m.dur)
            /\ sourcesRef' = sourcesRef \cup {Len(sched) + 1}
            /\ analysisText' = TranscriptText(m.text)
            /\ mouldAlert' = TranscriptAlert(m.text)
            /\ UNCHANGED uncaught
    /\ stopLog' = <<>>
    /\ UNCHANGED <<neuralSync, active, errorShown, sessionRef, audioCtxRef,
                   micCtxRef, videoSrc, pc, chan, stream, outCtx, micCtx, timer,
                   prompt, inflight, clock, wire, ended,
                   retry, pcm, mic, stale, heard, localStorage, app>>

\* srcNode.onended, line 1373: the buffer has played to its end.  On the
\* referenced context that is when the clock has passed its end; a context
\* that is no longer referenced runs on a clock the component does not read.
OnEnded(h) ==
    /\ TaskMayRun
    /\ h \in sourcesRef
    /\ hstate[h] = "live"
    /\ sched[h].ctx = audioCtxRef => clock >= sched[h].start + sched[h].dur
    /\ sourcesRef' = sourcesRef \ {h}
    /\ hstate' = [hstate EXCEPT ![h] = "ended"]
    /\ stopLog' = <<>>
    /\ UNCHANGED <<neuralSync, active, mouldAlert, analysisText, errorShown,
                   sessionRef, audioCtxRef, micCtxRef, videoSrc, nextStartTimeRef,
                   pc, chan, stream, outCtx, micCtx, timer, prompt, inflight, clock,
                   sched, pend, wire, uncaught, ended,
                   retry, pcm, mic, stale, heard, localStorage, app>>

\* sourcesRef.current.delete(srcNode), line 1373, for the node that context c
\* created under handle h: a Set holds objects, so only that very node goes,
\* not a node of another context that has the same handle.
DeleteByHandle(set, c, h) ==
    set \ {h}
Delete(set, c, h) ==
    {j \in set : ~(j = h /\ sched[j].ctx = c)}

\* The ended event of a source that stopScanner has stopped: its onended runs.
OnEndedStopped(c, h) ==
    /\ TaskMayRun
    /\ <<c, h>> \in stale
    /\ stale' = stale \ {<<c, h>>}
    /\ sourcesRef' = Delete(sourcesRef, c, h)
    /\ stopLog' = <<>>
    /\ UNCHANGED <<neuralSync, active, mouldAlert, analysisText, errorShown,
                   sessionRef, audioCtxRef, micCtxRef, videoSrc, nextStartTimeRef,
                   pc, chan, stream, outCtx, micCtx, timer, prompt, inflight, clock,
                   sched, hstate, pend, wire, uncaught, ended,
                   retry, pcm, mic, heard, localStorage, app>>

\* The output context's clock advances (AudioContext.currentTime).
ClockAdvance ==
    /\ TaskMayRun
    /\ audioCtxRef # Null
    /\ clock < MaxClock
    /\ clock' = clock + 1
    /\ stopLog' = <<>>
    /\ UNCHANGED <<neuralSync, active, mouldAlert, analysisText, errorShown,
                   sessionRef, audioCtxRef, micCtxRef, videoSrc, nextStartTimeRef,
                   sourcesRef, pc, chan, stream, outCtx, micCtx, timer, prompt,
                   inflight, sched, hstate, pend, wire, uncaught, ended,
                   retry, pcm, mic, stale, heard, localStorage, app>>

\* ------------------------------------------------------------------ capture
\* One firing of the interval of invocation k, lines 1333-1348.  videoRef and
\* canvasRef are set while the video is rendered, that is while active.
IntervalTick(k) ==
    /\ TaskMayRun
    /\ timer[k]
    /\ IF sessionRef = Null \/ ~active
       THEN /\ timer' = [timer EXCEPT ![k] = FALSE]
            /\ UNCHANGED inflight
       ELSE /\ inflight[k] < MaxInflight
            /\ inflight' = [inflight EXCEPT ![k] = @ + 1]
            /\ UNCHANGED timer
    /\ stopLog' = <<>>
    /\ UNCHANGED <<neuralSync, active, mouldAlert, analysisText, errorShown,
                   sessionRef, audioCtxRef, micCtxRef, videoSrc, nextStartTimeRef,
                   sourcesRef, pc, chan, stream, outCtx, micCtx, prompt, clock,
                   sched, hstate, pend, wire, uncaught, ended,
                   retry, pcm, mic, stale, heard, localStorage, app>>

\* sendRealtimeInput on the session of invocation k (lines 1343 and 1358): the
\* call is made when sessionRef.current is set, whichever session that is.
Send(k, kind) ==
    IF sessionRef # Null
    THEN wire' = [chan |-> k, kind |-> kind, open |-> chan[k] = "open"]
    ELSE UNCHANGED wire

\* The frame of invocation k is encoded and its sessionPromise.then runs, line 1343.
FrameSend(k) ==
    /\ TaskMayRun
    /\ inflight[k] > 0
    /\ pc[k] = "ready"
    /\ inflight' = [inflight EXCEPT ![k] = @ - 1]
    /\ Send(k, "frame")
    /\ stopLog' = <<>>
    /\ UNCHANGED <<neuralSync, active, mouldAlert, analysisText, errorShown,
                   sessionRef, audioCtxRef, micCtxRef, videoSrc, nextStartTimeRef,
                   sourcesRef, pc, chan, stream, outCtx, micCtx, timer, prompt,
                   clock, sched, hstate, pend, uncaught, ended,
                   retry, pcm, mic, stale, heard, localStorage, app>>

\* onaudioprocess of invocation k and its sessionPromise.then, lines 1353-1359.
\* The script processor runs while its context is running; the send runs once
\* the session promise has resolved.
AudioProcess(k) ==
    /\ TaskMayRun
    /\ micCtx[k] = "running"
    /\ pc[k] = "ready"
    /\ Send(k, "audio")
    /\ stopLog' = <<>>
    /\ UNCHANGED <<neuralSync, active, mouldAlert, analysisText, errorShown,
                   sessionRef, audioCtxRef, micCtxRef, videoSrc, nextStartTimeRef,
                   sourcesRef, pc, chan, stream, outCtx, micCtx, timer, prompt,
                   inflight, clock, sched, hstate, pend, uncaught, ended,
                   retry, pcm, mic, stale, heard, localStorage, app>>

\* onaudioprocess of invocation k with its blocks numbered as they are
\* produced.  While sessionPromise is pending the then of line 1358 waits on
\* it; once it has resolved the then runs as a promise job before any other
\* task, and sends if sessionRef.current is set.
AudioBlock(k) ==
    /\ TaskMayRun
    /\ micCtx[k] = "running"
    /\ pc[k] \in {"connect", "ready"}
    /\ mic[k].made < MaxBlocks
    /\ LET b == [n |-> mic[k].made + 1, waited |-> pc[k] = "connect"] IN
       IF pc[k] = "connect"
       THEN /\ mic' = [mic EXCEPT ![k].made = @ + 1,
                                  ![k].waiting = Append(@, b)]
            /\ UNCHANGED wire
       ELSE /\ mic' = [mic EXCEPT ![k].made = @ + 1,
                                  ![k].sent = IF sessionRef # Null
                                              THEN Append(@, b) ELSE @]
            /\ Send(k, "audio")
    /\ stopLog' = <<>>
    /\ UNCHANGED <<neuralSync, active, mouldAlert, analysisText, errorShown,
                   sessionRef, audioCtxRef, micCtxRef, videoSrc, nextStartTimeRef,
                   sourcesRef, pc, chan, stream, outCtx, micCtx, timer, prompt,
                   inflight, clock, sched, hstate, pend, uncaught, ended,
                   retry, pcm, stale, heard, localStorage, app>>

\* ------------------------------------------------------------- PCM samples
\* The factor of lines 1356 and 303, and the sizes of an Int16Array element
\* and of a byte.
Scale == 32768
Int16Size == 65536
ByteSize == 256

\* The values getChannelData can hold in the model: x / SampleDen.
Samples == (0 - SampleDen)..SampleDen

\* The number v / d truncated toward zero (the first step of ToInt16).
Trunc(v, d) ==
    IF v >= 0 THEN v \div d ELSE 0 - ((0 - v) \div d)

\* ECMAScript ToInt16, the conversion of a store into an Int16Array: modulo
\* 2^16, into the range -2^15 .. 2^15 - 1.
ToInt16(v) ==
    LET u == v % Int16Size
    IN IF u >= Scale THEN u - Int16Size ELSE u

\* int16[i] = inputData[i] * 32768, line 1356, for the sample x / SampleDen.
EncodeSample(x) ==
    ToInt16(Trunc(x * Scale, SampleDen))

\* new Uint8Array(int16.buffer), line 1357: the two bytes of an element, low
\* byte first.  encode and decode (base64) carry the bytes as they are.
BytesOf(i) ==
    LET u == i % Int16Size IN <<u % ByteSize, u \div ByteSize>>

\* new Int16Array(data.buffer), line 297: the element of two bytes.
Int16Of(b) ==
    ToInt16(b[1] + ByteSize * b[2])

\* onaudioprocess converts the captured sample (lines 1354-1357) and the
\* receiver decodes it as decodeAudioData does (lines 297-303): the value
\* decoded is out / Scale.
AudioSample ==
    /\ ~pcm.done
    /\ pcm' = LET i == EncodeSample(pcm.x)
                  b == BytesOf(i)
              IN [x |-> pcm.x, int16 |-> i, bytes |-> b, out |-> Int16Of(b),
                  done |-> TRUE]
    /\ UNCHANGED <<neuralSync, active, mouldAlert, analysisText, errorShown,
                   sessionRef, audioCtxRef, micCtxRef, videoSrc, nextStartTimeRef,
                   sourcesRef, pc, chan, stream, outCtx, micCtx, timer, prompt,
                   inflight, clock, sched, hstate, pend, wire, uncaught, ended,
                   stopLog, retry, mic, stale, heard, localStorage, app>>

\* ------------------------------------------------------------ specification
\* startScanner and stopScanner with their callers and completions.
Lifecycle(n) ==
    \/ StartScanner(n)
    \/ \E k \in Invocations : MediaResolved(k)
    \/ \E k \in Invocations : MediaRejected(k)
    \/ \E k \in Invocations : OnOpen(k)
    \/ \E k \in Invocations : ConnectResolved(k)
    \/ ToggleNeuralSync
    \/ \E k \in Invocations : OnError(k)
    \/ \E k \in Invocations : OnClose(k)

\* The key prompt of the catch in startScanner.
KeyPrompt ==
    \/ \E k \in Invocations : \E denied \in BOOLEAN : ConnectRejected(k, denied)
    \/ \E k \in Invocations : PromptRetry(k)
    \/ \E k \in Invocations : PromptDeclined(k)

\* Inbound messages: no audio or a chunk of audio, a transcript or none.
Messages ==
    \/ \E k \in Invocations : \E dur \in {0, MaxDur} : \E t \in Texts \cup {NoText} :
          OnMessage(k, dur, t, MaxSpoken)
    \/ Resume

\* Frame and microphone capture.
Capture ==
    \/ \E k \in Invocations : IntervalTick(k)
    \/ \E k \in Invocations : FrameSend(k)
    \/ \E k \in Invocations : AudioProcess(k)

\* Playback of the audio that has been scheduled.
Playing ==
    \/ \E h \in 1..MaxChunks : OnEnded(h)
    \/ ClockAdvance

\* The whole component.
Next ==
    \/ Lifecycle(MaxStarts)
    \/ StartRefused
    \/ KeyPrompt
    \/ Messages
    \/ Playing
    \/ Capture

Spec == Init /\ [][Next]_vars

\* Sessions with capture.  What is left out (messages, playback) writes only
\* analysisText, mouldAlert, the cursor, the in-flight set and the record of
\* start calls; of these the actions here read nothing but write the last
\* three to their reset values in stopScanner.
NextCapture ==
    \/ Lifecycle(MaxStarts)
    \/ StartRefused
    \/ KeyPrompt
    \/ Capture

SpecCapture == Init /\ [][NextCapture]_vars

\* Sessions with their inbound messages.  Capture is left out: it writes only
\* timer, inflight and wire, which no action here reads.
NextMessages ==
    \/ Lifecycle(MaxStarts)
    \/ StartRefused
    \/ KeyPrompt
    \/ Messages

SpecMessages == Init /\ [][NextMessages]_vars

\* Playback: the sessions and the audio of their messages.  What is left out
\* (transcripts, capture, the key prompt, a refused start) writes only
\* analysisText, mouldAlert, timer, inflight, wire, prompt and errorShown, which
\* no action here reads.  A chunk is of the shortest or the longest duration.
NextPlayback ==
    \/ Lifecycle(MaxSessions)
    \/ \E k \in Invocations : ConnectRejected(k, FALSE)
    \/ \E k \in Invocations : \E dur \in {1, MaxDur} :
          OnMessage(k, dur, NoText, MaxChunks)
    \/ Resume
    \/ Playing

SpecPlayback == Init /\ [][NextPlayback]_vars

\* stopScanner with calls that throw: a session, the audio of its messages
\* (every chunk of the shortest duration) and the stops.
NextTeardown ==
    \/ Lifecycle(MaxSessions)
    \/ \E k \in Invocations : OnMessage(k, 1, NoText, MaxChunks)
    \/ Resume
    \/ \E raise \in (SUBSET ThrowingCalls) \ {{}} : StopRaising(raise)

SpecTeardown == Init /\ [][NextTeardown]_vars

\* One session at a time and its messages, the audio chunks of the shortest
\* duration.  Capture, playback progress and the key prompt are left out: they
\* write nothing that the message handler reads.
NextTranscript ==
    \/ Lifecycle(MaxSessions)
    \/ \E k \in Invocations : \E dur \in {0, 1} : \E t \in Texts \cup {NoText} :
          OnMessage(k, dur, t, MaxSpoken)
    \/ Resume

SpecTranscript == Init /\ [][NextTranscript]_vars

\* The conversion of one microphone sample, for every sample value.
InitPcm ==
    /\ InitScanner
    /\ stale = NotFollowed
    /\ mic = [k \in Invocations |-> [made |-> 0, waiting |-> <<>>, sent |-> <<>>]]
    /\ pcm \in {Captured(x) : x \in Samples}

NextPcm ==
    AudioSample

SpecPcm == InitPcm /\ [][NextPcm]_vars

\* The sessions and the microphone blocks of each.
NextAudio ==
    \/ Lifecycle(MaxSessions)
    \/ \E k \in Invocations : AudioBlock(k)

SpecAudio == Init /\ [][NextAudio]_vars

\* Sessions one after another, the audio of their messages (every chunk of the
\* shortest duration), its playback, and the ended events of stopped sources.
\* The sessions are stopped by the Neural Sync toggle; the other callers of
\* stopScanner run the same Teardown.
NextHandles ==
    \/ StartScanner(MaxStarts)
    \/ \E k \in Invocations : MediaResolved(k)
    \/ \E k \in Invocations : OnOpen(k)
    \/ \E k \in Invocations : ConnectResolved(k)
    \/ ToggleNeuralSync
    \/ \E k \in Invocations : OnMessage(k, 1, NoText, MaxSpoken)
    \/ Resume
    \/ Playing
    \/ \E c \in Invocations : \E h \in 1..MaxChunks : OnEndedStopped(c, h)

InitHandles ==
    /\ InitScanner
    /\ pcm = Captured(0)
    /\ mic = [k \in Invocations |-> [made |-> 0, waiting |-> <<>>, sent |-> <<>>]]
    /\ stale = {}

SpecHandles == InitHandles /\ [][NextHandles]_vars

\* The sessions alone: starts, stops, completions and the key prompt.  What is
\* left out (messages, playback, capture, a refused start) writes nothing that
\* an action here reads.
NextSession ==
    \/ Lifecycle(MaxSessions)
    \/ KeyPrompt

SpecSession == Init /\ [][NextSession]_vars

\* One session at a time and its frames and microphone blocks.  setInterval
\* fires its callback for as long as the interval is armed, and a frame that has
\* been encoded is handed to its sessionPromise.then once the promise has
\* resolved: both are weakly fair.  Nothing obliges the user, the network or
\* the remote end to act.
NextFrames ==
    \/ Lifecycle(MaxSessions)
    \/ Capture

SpecFrames ==
    /\ Init
    /\ [][NextFrames]_vars
    /\ \A k \in Invocations : WF_vars(IntervalTick(k))
    /\ \A k \in Invocations : WF_vars(FrameSend(k))

\* ----------------------------------------------------- App: the inventory
\* The variables of the scanner, which the inventory handlers leave alone.
scanner == <<neuralSync, active, mouldAlert, analysisText, errorShown, sessionRef,
             audioCtxRef, micCtxRef, videoSrc, nextStartTimeRef, sourcesRef, pc,
             chan, stream, outCtx, micCtx, timer, prompt, inflight, clock, sched,
             hstate, pend, wire, uncaught, ended, stopLog, retry, pcm, mic, stale,
             heard>>

\* The calls of handleAction that the persisted stats count.
Counted(ls) ==
    GetStats(ls).rescued + GetStats(ls).composted + GetStats(ls).wasted

\* handleAddFood, lines 363-370; at most n items are explored.
HandleAddFood(item, n) ==
    /\ Len(GetInventory(localStorage)) < n
    /\ Len(app.inventory) < n
    /\ localStorage' = AddFoodItem(localStorage, item)
    /\ app' = [app EXCEPT !.inventory = GetInventory(localStorage'),
                          !.notification = "success"]
    /\ UNCHANGED scanner

\* handleAction on the i-th item that InventoryView renders, lines 379-400.
HandleAction(i, action) ==
    /\ i \in DOMAIN app.inventory
    /\ Counted(localStorage) < MaxActions
    /\ LET item == app.inventory[i] IN
       localStorage' = RemoveFoodItem(
                           UpdateStatsForAction(localStorage, item, action),
                           item.id)
    /\ app' = [inventory |-> GetInventory(localStorage'),
               stats |-> GetStats(localStorage'),
               notification |-> IF action = "tossed" THEN "info" ELSE "success"]
    /\ UNCHANGED scanner

\* The logout of ProfileHub, line 484: the keys are removed, the inventory and
\* the stats in the state of App stay.
Logout ==
    /\ localStorage' = ClearUserProfile(localStorage)
    /\ UNCHANGED app
    /\ UNCHANGED scanner

\* Items are added, n at most at a time, and acted on.
Storage(items, n) ==
    \/ \E item \in items : HandleAddFood(item, n)
    \/ \E i \in 1..n : \E action \in FoodActions : HandleAction(i, action)

\* The stats of one item at a time, of any quantity the form of line 1224
\* accepts: parseInt gives negative numbers as well.
NextStats ==
    Storage(ItemsOf({1}, -1..MaxQuantity), 1)

SpecStats == Init /\ [][NextStats]_vars

\* The stats of one item at a time, of a quantity that is not negative.
NextCounts ==
    Storage(ItemsOf({1}, 0..MaxQuantity), 1)

SpecCounts == Init /\ [][NextCounts]_vars

\* The inventory: items of quantity one, ids that may repeat (Date.now() of
\* lines 1019 and 1261 repeats within a millisecond), and the logout.
NextInventory ==
    \/ Storage(ItemsOf(1..MaxIds, {1}), MaxItems)
    \/ Logout

SpecInventory == Init /\ [][NextInventory]_vars

\* ------------------------------------------------------------------- claims
RECURSIVE SumDur(_, _)
\* The durations of the first n start calls of q, added up.
SumDur(q, n) ==
    IF n = 0 THEN 0 ELSE SumDur(q, n - 1) + q[n].dur

\* C1: while every chunk after the first arrives with the output clock not
\* ahead of the cursor, the i-th chunk starts at the start of the first chunk
\* plus the durations of the chunks before it.
C1_GaplessStarts ==
    \A i \in 1..Len(sched) :
        (\A j \in 2..i : ~sched[j].ahead)
            => sched[i].start = sched[1].start + SumDur(sched, i - 1)

\* Two chunks are scheduled, the second arrived with the clock behind the
\* cursor and starts where the first ends.
C1_Witness ==
    /\ Len(sched) >= 2
    /\ ~sched[2].ahead
    /\ sched[2].start = sched[1].start + sched[1].dur
    /\ sched[2].start > sched[2].read

\* C2: a chunk that arrives with the output clock ahead of the cursor starts at
\* the clock time read on its arrival, and no chunk starts at a negative time
\* or before the clock time read on its arrival.
C2_ClockCatchUp ==
    \A i \in 1..Len(sched) :
        /\ sched[i].ahead => sched[i].start = sched[i].read
        /\ sched[i].start >= 0
        /\ sched[i].start >= sched[i].read

\* The second chunk arrived after the clock had passed the end of the first.
C2_Witness ==
    /\ Len(sched) >= 2
    /\ sched[2].ahead
    /\ sched[2].start = sched[2].read
    /\ sched[2].start > sched[1].start + sched[1].dur

\* C3: of two chunks of one session the one that arrived later starts no
\* earlier than the other ends, however their handlers interleave.
C3_SequentialNoOverlap ==
    \A i, j \in 1..Len(sched) :
        sched[i].arr < sched[j].arr
            => sched[j].start >= sched[i].start + sched[i].dur

\* Two chunks are scheduled and the second arrived while the handler of the
\* first was suspended at its decode.
C3_Witness ==
    /\ Len(sched) >= 2
    /\ sched[2].behind
    /\ sched[1].arr < sched[2].arr

\* C4: no step lowers the cursor, except stopScanner, which sets it to zero.
C4_CursorMonotonic ==
    [][ \/ nextStartTimeRef' >= nextStartTimeRef
        \/ (nextStartTimeRef' = 0 /\ stopLog' # <<>>) ]_vars

\* The cursor has advanced over two chunks, the first has played to its end
\* and the clock is behind the cursor.
C4_Witness ==
    /\ Len(sched) >= 2
    /\ nextStartTimeRef > clock
    /\ \E h \in DOMAIN hstate : hstate[h] = "ended"

\* C5: after stopScanner every handle that was scheduled and had not finished
\* has been stopped, the in-flight set is empty and the cursor is zero.
C5_CancellationComplete ==
    stopLog # <<>> =>
        LET e == stopLog[Len(stopLog)] IN
        /\ \A h \in e.live : <<"source.stop", h>> \in e.released
        /\ sourcesRef = {}
        /\ nextStartTimeRef = 0

\* stopScanner has just run with a handle scheduled and not finished.
C5_Witness ==
    /\ stopLog # <<>>
    /\ stopLog[Len(stopLog)].live # {}
    /\ sourcesRef = {}

\* C6: a second stopScanner in a row, or one before any start, releases nothing
\* and leaves the state as the first left it.
C6_StopIdempotent ==
    /\ StopScanner(StopScanner(Cur)) = StopScanner(Cur)
    /\ Releases(StopScanner(Cur)) = {}
    /\ Len(stopLog) = 2 => (stopLog[2].released = {} /\ StopScanner(Cur) = Cur)
    /\ (\A k \in Invocations : pc[k] = "idle")
           => (Releases(Cur) = {} /\ StopScanner(Cur) = Cur)

\* stopScanner has run twice in a row; the first run released a channel, the
\* tracks and both contexts.
C6_Witness ==
    /\ Len(stopLog) = 2
    /\ Cardinality(stopLog[1].released) >= 4
    /\ stopLog[2].released = {}

\* stopScanner step by step agrees with StopScanner when no call throws.
StopRunAgrees ==
    /\ StopRun(Cur, {}).state = StopScanner(Cur)
    /\ ~StopRun(Cur, {}).thrown
    /\ {StopRun(Cur, {}).calls[i] : i \in DOMAIN StopRun(Cur, {}).calls}
           = Releases(Cur) \cup {<<"cursor.reset", 0>>}

\* C7: at most one channel is being opened or open, and at most one output
\* audio context is running.
C7_SingleSession ==
    /\ Cardinality({k \in Invocations : chan[k] \in {"connecting", "open"}}) <= 1
    /\ Cardinality({k \in Invocations : outCtx[k] = "running"}) <= 1

\* C8: once stopScanner has run after an invocation started and the awaits of
\* that invocation have completed, none of its tracks, channel and audio
\* contexts is live.
C8_ReleasedAfterStop ==
    \A k \in Invocations :
        (ended[k] /\ pc[k] \in {"ready", "failed"})
            => /\ stream[k] # "live"
               /\ chan[k] \notin {"connecting", "open"}
               /\ outCtx[k] # "running"
               /\ micCtx[k] # "running"

\* C9: after stopScanner the interval of a stopped invocation captures no
\* frame and its callbacks call no send on its session.
C9_NoCaptureAfterStop ==
    [][ \A k \in Invocations :
            ended[k] => /\ inflight'[k] <= inflight[k]
                        /\ (wire' # wire => wire'.chan # k) ]_vars

\* A step of the message handler: its start or its resumption.
MessageStep ==
    \/ \E k \in Invocations : \E dur \in {0, MaxDur} : \E t \in Texts \cup {NoText} :
          OnMessage(k, dur, t, MaxSpoken)
    \/ Resume

\* C10: while the component is not active, a step of the message handler
\* schedules nothing, leaves the cursor, the in-flight set, the transcript and
\* the alert as they are, and throws nothing.
C10_CallbacksNoOpAfterStop ==
    [][ (~active /\ MessageStep)
            => /\ UNCHANGED <<sched, sourcesRef, nextStartTimeRef, analysisText,
                              mouldAlert>>
               /\ uncaught' = uncaught ]_vars

\* C11: whichever calls of stopScanner throw, stopScanner does not throw and
\* makes every call that a run without exceptions makes.
C11_TeardownTotal ==
    stopLog # <<>> =>
        LET e == stopLog[Len(stopLog)] IN
        /\ ~e.thrown
        /\ e.calls = e.due

\* Invocation k is a session that is connecting or active: its channel is being
\* opened or open and stopScanner has not run since it started.
LiveSession(k) ==
    /\ pc[k] \in {"connect", "ready"}
    /\ chan[k] \in {"connecting", "open"}
    /\ ~ended[k]

\* C12: after onerror or onclose on a connecting or active session, its channel
\* is not open and not referenced, its tracks are stopped, the in-flight set is
\* empty, the cursor is zero, its two audio contexts are closed and the
\* component is not active.
C12_ErrorCloseTearsDown ==
    [][ \A k \in Invocations :
            (LiveSession(k) /\ (OnError(k) \/ OnClose(k)))
                => /\ chan'[k] \notin {"connecting", "open"}
                   /\ sessionRef' = Null
                   /\ stream'[k] # "live"
                   /\ sourcesRef' = {}
                   /\ nextStartTimeRef' = 0
                   /\ outCtx'[k] # "running"
                   /\ micCtx'[k] # "running"
                   /\ ~active' ]_vars

\* C13: onerror and onclose start no invocation, open no channel and call no
\* key prompt; an invocation begins only with the start button or with a key
\* prompt that resolved true, and a key prompt is called only by the catch of
\* a connect rejected with PERMISSION_DENIED.
C13_NoAutoReconnect ==
    [][ /\ \A k \in Invocations :
              (OnError(k) \/ OnClose(k))
                  => /\ pc' = pc
                     /\ prompt' = prompt
                     /\ \A j \in Invocations :
                            chan[j] = "none" => chan'[j] = "none"
        /\ \A k \in Invocations :
              (pc[k] = "idle" /\ pc'[k] # "idle")
                  => (StartScanner(MaxStarts) \/ \E j \in Invocations : PromptRetry(j))
        /\ \A k \in Invocations :
              (~prompt[k] /\ prompt'[k]) => ConnectRejected(k, TRUE) ]_vars

\* An active session has just ended through onclose: stopScanner closed its
\* session, no other invocation exists and no key prompt is pending.
C13_Witness ==
    \E k \in Invocations :
        /\ pc[k] = "ready" /\ chan[k] = "closed" /\ ~active
        /\ Len(stopLog) = 1
        /\ <<"session.close", k>> \in stopLog[1].released
        /\ \A j \in Invocations : j # k => pc[j] = "idle"
        /\ \A j \in Invocations : ~prompt[j]

\* C14: when the connect of an invocation that is itself the retry after a key
\* prompt is rejected with PERMISSION_DENIED, no key prompt is called, the
\* error callback has been called and the component is not active.
C14_RetryOnce ==
    [][ \A k \in Invocations :
            (retry[k] /\ ConnectRejected(k, TRUE))
                => /\ ~prompt'[k]
                   /\ errorShown'
                   /\ ~active' ]_vars

\* C15: when getUserMedia of an invocation rejects, no channel has been opened
\* for it, the error callback has been called, no key prompt and no retry
\* follow, the component is not active and the output context of the
\* invocation is closed.
C15_DeviceUnavailable ==
    [][ \A k \in Invocations :
            MediaRejected(k)
                => /\ chan'[k] = "none"
                   /\ errorShown'
                   /\ ~prompt'[k]
                   /\ pc'[k] = "failed"
                   /\ ~active'
                   /\ outCtx'[k] # "running" ]_vars

\* C16: every sendRealtimeInput call is made on the session of an invocation
\* whose channel is open and which no stopScanner has followed.
C16_SendOnlyWhenActive ==
    [][ wire' # wire
            => /\ chan[wire'.chan] = "open"
               /\ wire'.open
               /\ ~ended[wire'.chan] ]_vars

\* C17: no interval has more than one captured frame whose send has not run.
C17_OneFrameInFlight ==
    \A k \in Invocations : inflight[k] <= 1

\* classify of the transcript t: its lower-cased text contains a keyword.
Classify(t) ==
    \E w \in Keywords :
        LET l == Lower(t) IN
        \E i \in 1..(Len(l) - Len(w) + 1) : SubSeq(l, i, i + Len(w) - 1) = w

\* This step is the message handler reaching lines 1375-1388 with transcript t.
HandlesTranscript(t) ==
    \/ \E k \in Invocations : \E dur \in {0, 1} :
          /\ ~(dur > 0 /\ audioCtxRef # Null)
          /\ OnMessage(k, dur, t, MaxSpoken)
    \/ /\ pend # <<>>
       /\ audioCtxRef # Null
       /\ pend[JobIndex(pend)].text = t
       /\ Resume

\* C18: each transcript the handler processes leaves the alert equal to
\* classify of its text, whatever the alert was before: the texts with a
\* keyword raise it, the others clear it.
C18_AlertNotSticky ==
    [][ \A t \in Texts :
            HandlesTranscript(t)
                => /\ mouldAlert' = Classify(t)
                   /\ analysisText' = Lower(t) ]_vars

\* A session is active, the transcript without a keyword was the last one
\* processed and the alert is off; and classify is true of the text with a
\* keyword and false of the other.
C18_Witness ==
    /\ active
    /\ analysisText = Lower(FreshText)
    /\ ~mouldAlert
    /\ Classify(MouldText) /\ ~Classify(FreshText)

\* C19: a sample that has been converted and decoded differs from the value
\* captured by at most one step of 1/32768, the endpoints -1 and 1 included.
C19_PcmRoundTrip ==
    pcm.done =>
        LET d == pcm.out * SampleDen - pcm.x * Scale
        IN (0 - SampleDen) <= d /\ d <= SampleDen

\* The group of a teardown call: the channel, then playback, then capture, then
\* the output context.
TeardownGroup(c) ==
    CASE c[1] = "session.close" -> 1
      [] c[1] \in {"source.stop", "cursor.reset"} -> 2
      [] c[1] \in {"track.stop", "micCtx.close"} -> 3
      [] c[1] = "audioCtx.close" -> 4

\* C20: in every run of stopScanner no call of a later group is made before a
\* call of an earlier group.
C20_TeardownOrder ==
    \A n \in DOMAIN stopLog :
        LET c == stopLog[n].calls IN
        \A i, j \in DOMAIN c :
            i < j => TeardownGroup(c[i]) <= TeardownGroup(c[j])

\* Invocation k is an active session: its channel is open, its session has
\* been stored, and stopScanner has not run since it started.
ActiveSession(k) ==
    /\ pc[k] = "ready"
    /\ chan[k] = "open"
    /\ sessionRef = k
    /\ ~ended[k]

\* C21: a firing of the interval of an invocation that is not an active session
\* captures no frame, sends nothing and leaves the interval armed or cancelled
\* as it was.
C21_IdleTickNoOp ==
    [][ \A k \in Invocations :
            (~ActiveSession(k) /\ IntervalTick(k))
                => /\ timer' = timer
                   /\ inflight' = inflight
                   /\ wire' = wire ]_vars

\* C22: the microphone blocks of an invocation that are sent are sent in the
\* order in which onaudioprocess produced them.
C22_AudioInOrder ==
    \A k \in Invocations :
        \A i, j \in DOMAIN mic[k].sent :
            i < j => mic[k].sent[i].n < mic[k].sent[j].n

\* Two blocks of an invocation have been sent, both produced while the session
\* promise was pending.
C22_Witness ==
    \E k \in Invocations :
        /\ Len(mic[k].sent) >= 2
        /\ mic[k].sent[1].waited /\ mic[k].sent[2].waited

\* C23: while an output context exists, a message with audio suspends one
\* handler and its resumption schedules one buffer and adds one handle; a
\* message without audio leaves the cursor, the in-flight set and the
\* scheduled buffers as they are; a message without a transcript leaves the
\* text and the alert as they are, and a transcript sets both from its text.
C23_Demultiplexed ==
    [][ /\ \A k \in Invocations : \A dur \in {0, 1} : \A t \in Texts \cup {NoText} :
              OnMessage(k, dur, t, MaxSpoken)
                  => /\ dur = 0
                          => /\ UNCHANGED <<nextStartTimeRef, sourcesRef, sched, pend>>
                             /\ t = NoText => UNCHANGED <<analysisText, mouldAlert>>
                             /\ t # NoText => analysisText' = Lower(t)
                     /\ (dur > 0 /\ audioCtxRef # Null)
                          => /\ UNCHANGED <<analysisText, mouldAlert, sched, sourcesRef>>
                             /\ Len(pend') = Len(pend) + 1
        /\ (pend # <<>> /\ audioCtxRef # Null /\ Resume)
              => /\ Len(sched') = Len(sched) + 1
                 /\ Cardinality(sourcesRef') = Cardinality(sourcesRef) + 1
                 /\ pend[JobIndex(pend)].text = NoText
                        => UNCHANGED <<analysisText, mouldAlert>>
                 /\ pend[JobIndex(pend)].text # NoText
                        => analysisText' = Lower(pend[JobIndex(pend)].text) ]_vars

\* A message with audio and no transcript has been scheduled: one buffer, one
\* handle in flight, and the text is still the one onopen set.
C23_Witness ==
    /\ Len(sched) = 1
    /\ sourcesRef = {1}
    /\ pend = <<>>
    /\ analysisText = OnlineText
    /\ ~mouldAlert

\* C24: the in-flight set holds exactly the handles scheduled since the last
\* stopScanner whose buffer has not played to its end, and the ended event of a
\* source stopped by an earlier stopScanner leaves the set as it is.
C24_InFlightExact ==
    [][ /\ sourcesRef' = {h \in DOMAIN hstate' : hstate'[h] = "live"}
        /\ \A c \in Invocations : \A h \in 1..MaxChunks :
              OnEndedStopped(c, h) => sourcesRef' = sourcesRef ]_vars

\* The ended event of a stopped source of an earlier session is due while a
\* later session is active with a buffer in flight under the same handle.
C24_Witness ==
    \E p \in stale :
        /\ active
        /\ p[2] \in sourcesRef
        /\ sched[p[2]].ctx # p[1]

\* C25: onerror or onclose of an invocation that stopScanner has already
\* stopped leaves every other invocation that stopScanner has not stopped as it
\* is: its channel, its tracks, its two audio contexts, the in-flight set, the
\* cursor and the active flag.
C25_StaleCloseHarmless ==
    [][ \A k \in Invocations : \A j \in Invocations \ {k} :
            (/\ ended[k]
             /\ pc[j] # "idle"
             /\ ~ended[j]
             /\ (OnError(k) \/ OnClose(k)))
                => /\ chan'[j] = chan[j]
                   /\ stream'[j] = stream[j]
                   /\ outCtx'[j] = outCtx[j]
                   /\ micCtx'[j] = micCtx[j]
                   /\ sourcesRef' = sourcesRef
                   /\ nextStartTimeRef' = nextStartTimeRef
                   /\ active' = active ]_vars

\* C26: with the interval firing for as long as it is armed, an active session
\* that is not stopped, failed or closed goes on to capture a frame for sending,
\* again and again.
C26_FrameLiveness ==
    \A k \in Invocations :
        ActiveSession(k) ~> (~ActiveSession(k) \/ inflight[k] > 0)

\* C27: when the last suspended handler of a message with a transcript has
\* finished, the transcript and the alert that are displayed are those of the
\* message with a transcript that arrived last.
C27_ArrivalOrder ==
    [][ (/\ Resume
         /\ audioCtxRef # Null
         /\ pend[JobIndex(pend)].text # NoText
         /\ pend' = <<>>)
            => /\ analysisText' = Lower(heard)
               /\ mouldAlert' = HasKeyword(Lower(heard)) ]_vars

\* C28: the persisted stats have level = floor(xp / 300) + 1.
C28_LevelFromXp ==
    \A i \in DOMAIN localStorage.stats :
        LET st == localStorage.stats[i] IN
        \E n \in -1..(MaxActions + 1) :
            /\ 300 * n <= st.xp
            /\ st.xp < 300 * (n + 1)
            /\ st.level = n + 1

\* Stats of level 2 or more have been persisted, after a toss and a find of
\* mould.
C28_Witness ==
    /\ localStorage.stats # <<>>
    /\ localStorage.stats[1].level >= 2
    /\ localStorage.stats[1].wasted > 0
    /\ localStorage.stats[1].moldDetected > 0

\* C29: with quantities that are not negative, xp is never negative and level
\* never below 1, and a toss lowers xp by no more than 20 for each unit of the
\* quantity (0 taken as 1), leaves it at 0 or more and sets streakDays to 0.
C29_XpFloor ==
    [][ /\ GetStats(localStorage').xp >= 0
        /\ GetStats(localStorage').level >= 1
        /\ \A i \in DOMAIN app.inventory :
              HandleAction(i, "tossed")
                  => LET q == IF app.inventory[i].quantity = 0 THEN 1
                              ELSE app.inventory[i].quantity
                     IN  /\ GetStats(localStorage).xp - GetStats(localStorage').xp
                                <= 20 * q
                         /\ GetStats(localStorage').streakDays = 0 ]_vars

\* A toss has brought xp that had been earned down to the floor.
C29_Witness ==
    /\ GetStats(localStorage).wasted > 0
    /\ GetStats(localStorage).rescued + GetStats(localStorage).composted > 0
    /\ GetStats(localStorage).xp = 0
    /\ GetStats(localStorage).streakDays = 0

\* C30: handleAction on an item leaves no item of its id in the persisted
\* inventory, leaves the items of other ids as they were and in their order,
\* and adds one to exactly one of rescued, composted and wasted.
C30_ActionRemovesItem ==
    [][ \A i \in DOMAIN app.inventory : \A action \in FoodActions :
            HandleAction(i, action)
                => LET id == app.inventory[i].id
                       before == GetStats(localStorage)
                       after == GetStats(localStorage')
                   IN  /\ \A j \in DOMAIN localStorage'.inventory :
                              localStorage'.inventory[j].id # id
                       /\ localStorage'.inventory =
                              SelectSeq(localStorage.inventory,
                                        LAMBDA x : x.id # id)
                       /\ Counted(localStorage') = Counted(localStorage) + 1
                       /\ after.rescued >= before.rescued
                       /\ after.composted >= before.composted
                       /\ after.wasted >= before.wasted ]_vars

\* An action has been taken on an item of an inventory that was full, and the
\* item of another id is left in the persisted inventory and on display.
C30_Witness ==
    /\ Counted(localStorage) > 0
    /\ Len(localStorage.inventory) = MaxItems - 1
    /\ Len(app.inventory) = MaxItems - 1

====
